---- MODULE Spec2Model ----
(***************************************************************************)
(* Model of services/core/jni/com_android_server_vibrator_                 *)
(* VibratorController.cpp: the native wrapper of one vibrator controller   *)
(* (VibratorControllerWrapper), its JNI entry points, the completion       *)
(* callbacks it hands to the vibrator HAL, the PWLE compilation loop of    *)
(* vibratorPerformPwleEffect and the field conversion of vibratorGetInfo.  *)
(*                                                                         *)
(* Floats are modelled in tenths (5 is 0.5f); NaN is the value NaN below,  *)
(* compared the way IEEE comparison does (never equal, never greater).    *)
(***************************************************************************)
EXTENDS Integers, Sequences, FiniteSets, Bags, TLC

VARIABLES
    lifecycle,          \* "Uninitialized" | "Ready" | "Disposed": the wrapper object behind ptr
    mHal,               \* VibratorControllerWrapper::mHal: "none" | "connected" | "released"
    mVibratorId,        \* VibratorControllerWrapper::mVibratorId
    mCallbackListener,  \* state of the JNI global reference: "none" | "live" | "deleted"
    requests,           \* the completable requests issued so far, in order
    pending,            \* indices of requests whose callback the HAL holds and has not invoked
    delivered,          \* the bag of onComplete(vibratorId, vibrationId) calls made so far
    lastCall,           \* the last JNI entry point executed and what it did
    process,            \* "running", or how the process left defined behaviour
    pwle,               \* the compilation loop of vibratorPerformPwleEffect on one input
    getInfo,            \* the conversion of vibratorGetInfo on one vibrator::Info
    retry               \* one halCall on one series of answers of the hardware

vars == <<lifecycle, mHal, mVibratorId, mCallbackListener, requests, pending, delivered,
          lastCall, process, pwle, getInfo, retry>>

controllerVars == <<lifecycle, mHal, mVibratorId, mCallbackListener, requests, pending,
                    delivered, lastCall, process>>

(***************************************************************************)
(* Bounds of the model.                                                    *)
(***************************************************************************)
MaxLen == 3

MaxRequests == 2

MaxRetries == 1

(***************************************************************************)
(* Floats.                                                                 *)
(***************************************************************************)
NaN == 999

FloatEq(a, b) == a # NaN /\ b # NaN /\ a = b

FloatGt(a, b) == a # NaN /\ b # NaN /\ a > b

(***************************************************************************)
(* PWLE compilation (vibratorPerformPwleEffect, lines 302-319).            *)
(***************************************************************************)
BrakingNONE == "NONE"

\* aidl::Braking values a brakingId can be cast to; CLICK is the name the
\* end-to-end scenario gives to a kind other than NONE.
BrakingKinds == {BrakingNONE, "CLAB", "CLICK"}

Amplitudes == {0, 5, NaN}

Frequencies == {150}

Durations == {10, 20}

\* android.os.vibrator.RampSegment as read through sRampClassInfo
RampSegments ==
    [mStartAmplitude : Amplitudes, mEndAmplitude : Amplitudes,
     mStartFrequency : Frequencies, mEndFrequency : Frequencies,
     mDuration : Durations]

RECURSIVE SeqsUpTo(_, _)
SeqsUpTo(S, n) ==
    IF n = 0 THEN {<<>>}
    ELSE LET shorter == SeqsUpTo(S, n - 1)
         IN  shorter \cup {Append(s, x) : s \in {t \in shorter : Len(t) = n - 1}, x \in S}

brakingPwleWithoutDuration(braking, duration) ==
    [tag |-> "BrakingPwle", braking |-> braking, duration |-> 0]

brakingPwle(braking, duration) ==
    [tag |-> "BrakingPwle", braking |-> braking, duration |-> duration]

activePwleFromJavaPrimitive(ramp) ==
    [tag |-> "ActivePwle",
     startAmplitude |-> ramp.mStartAmplitude,
     endAmplitude |-> ramp.mEndAmplitude,
     startFrequency |-> ramp.mStartFrequency,
     endFrequency |-> ramp.mEndFrequency,
     duration |-> ramp.mDuration]

\* The test without its braking != NONE conjunct.
shouldBeReplacedWithBrakingIgnoringNone(activePwle, braking) ==
    FloatEq(activePwle.startAmplitude, 0) /\ FloatEq(activePwle.endAmplitude, 0)

shouldBeReplacedWithBraking(activePwle, braking) ==
    (braking # BrakingNONE) /\ FloatEq(activePwle.startAmplitude, 0)
        /\ FloatEq(activePwle.endAmplitude, 0)

shouldAddLastBrakingSwapped(lastActivePwle, braking) ==
    (braking # BrakingNONE) /\ FloatEq(lastActivePwle.startAmplitude, 0)
        /\ FloatGt(lastActivePwle.endAmplitude, 0)

\* The test without its startAmplitude > 0 conjunct.
shouldAddLastBrakingOnZeroStart(lastActivePwle, braking) ==
    (braking # BrakingNONE) /\ FloatEq(lastActivePwle.endAmplitude, 0)

shouldAddLastBraking(lastActivePwle, braking) ==
    (braking # BrakingNONE) /\ FloatGt(lastActivePwle.startAmplitude, 0)
        /\ FloatEq(lastActivePwle.endAmplitude, 0)

\* The loop body without the (i > 0) test.
pwleLoopBodyReplacingFirst(waveform, braking, i, acc) ==
    LET size == Len(waveform)
        activePwle == activePwleFromJavaPrimitive(waveform[i + 1])
        pushed == IF shouldBeReplacedWithBraking(activePwle, braking)
                  THEN Append(acc.primitives, brakingPwle(braking, activePwle.duration))
                  ELSE Append(acc.primitives, activePwle)
        total == acc.totalDuration + activePwle.duration
        last == IF (i = size - 1) /\ shouldAddLastBraking(activePwle, braking)
                THEN Append(pushed, brakingPwle(braking, 0))
                ELSE pushed
    IN  [primitives |-> last, totalDuration |-> total]

\* The loop body adding to totalDuration in the else branch only.
pwleLoopBodySkippingReplaced(waveform, braking, i, acc) ==
    LET size == Len(waveform)
        activePwle == activePwleFromJavaPrimitive(waveform[i + 1])
        replaced == (i > 0) /\ shouldBeReplacedWithBraking(activePwle, braking)
        pushed == IF replaced
                  THEN Append(acc.primitives, brakingPwle(braking, activePwle.duration))
                  ELSE Append(acc.primitives, activePwle)
        total == IF replaced THEN acc.totalDuration
                 ELSE acc.totalDuration + activePwle.duration
        last == IF (i = size - 1) /\ shouldAddLastBraking(activePwle, braking)
                THEN Append(pushed, brakingPwle(braking, 0))
                ELSE pushed
    IN  [primitives |-> last, totalDuration |-> total]

\* One iteration of the for loop, i counted from 0 as in the source.
pwleLoopBody(waveform, braking, i, acc) ==
    LET size == Len(waveform)
        activePwle == activePwleFromJavaPrimitive(waveform[i + 1])
        pushed == IF (i > 0) /\ shouldBeReplacedWithBraking(activePwle, braking)
                  THEN Append(acc.primitives, brakingPwle(braking, activePwle.duration))
                  ELSE Append(acc.primitives, activePwle)
        total == acc.totalDuration + activePwle.duration
        last == IF (i = size - 1) /\ shouldAddLastBraking(activePwle, braking)
                THEN Append(pushed, brakingPwle(braking, 0))
                ELSE pushed
    IN  [primitives |-> last, totalDuration |-> total]

RECURSIVE pwleLoop(_, _, _, _)
pwleLoop(waveform, braking, i, acc) ==
    IF i < Len(waveform)
    THEN pwleLoop(waveform, braking, i + 1, pwleLoopBody(waveform, braking, i, acc))
    ELSE acc

\* A compilation that ends every waveform, the empty one too, with a braking.
compilePwleBrakingEmpty(waveform, braking) ==
    IF waveform = <<>> /\ braking # BrakingNONE
    THEN [primitives |-> <<brakingPwle(braking, 0)>>, totalDuration |-> 0]
    ELSE pwleLoop(waveform, braking, 0, [primitives |-> <<>>, totalDuration |-> 0])

\* primitives and totalDuration as they stand when the loop is left.
compilePwle(waveform, braking) ==
    pwleLoop(waveform, braking, 0, [primitives |-> <<>>, totalDuration |-> 0])

(***************************************************************************)
(* The vibrator HAL behind mHal.                                           *)
(***************************************************************************)
\* What one invocation of a HalFunction can come back with: success, "not
\* implemented by this actuator", a transient connectivity failure (the one
\* kind that is retried), any other failure.
HalOutcomes == {"Ok", "Unsupported", "Transient", "Error"}

Transients(k) == [i \in 1..k |-> "Transient"]

\* The hardware's answers to the successive attempts of one call: transient
\* failures up to the first answer of another kind, or transient failures only.
HalOutcomeSeqs ==
    {Transients(k) \o <<o>> : k \in 0..MaxRetries, o \in HalOutcomes \ {"Transient"}}
        \cup {Transients(MaxRetries + 1)}

HalDurations == {0, 50}

\* A retry loop that takes "not implemented" for one more failure to retry.
RECURSIVE doWithRetryFromRetryingUnsupported(_, _)
doWithRetryFromRetryingUnsupported(outcomes, attempt) ==
    LET o == outcomes[attempt]
    IN  IF o \in {"Transient", "Unsupported"} /\ attempt <= MaxRetries
        THEN doWithRetryFromRetryingUnsupported(outcomes, attempt + 1)
        ELSE [result |-> IF o \in {"Ok", "Unsupported"} THEN o ELSE "Failed",
              attempts |-> attempt,
              accepted |-> (o = "Ok")]

RECURSIVE doWithRetryFrom(_, _)
doWithRetryFrom(outcomes, attempt) ==
    LET o == outcomes[attempt]
    IN  IF o = "Transient" /\ attempt <= MaxRetries
        THEN doWithRetryFrom(outcomes, attempt + 1)
        ELSE [result |-> IF o \in {"Ok", "Unsupported"} THEN o ELSE "Failed",
              attempts |-> attempt,
              accepted |-> (o = "Ok")]

\* vibrator::HalController::doWithRetry: result is the HalResult, attempts the
\* number of times fn ran, accepted whether the hardware took the request (and
\* with it the completion callback fn handed over).
doWithRetry(outcomes) == doWithRetryFrom(outcomes, 1)

\* The value() of a HalResult<void>, and of a result that is not Ok.
Void == "void"

\* A halCall that loses the HalResult of doWithRetry on its way back.
halCallMisreporting(outcomes) ==
    LET r == doWithRetry(outcomes)
    IN  [result |-> "Failed", attempts |-> r.attempts, accepted |-> r.accepted,
         path |-> "halCall", value |-> Void]

\* VibratorControllerWrapper::halCall: the one place that runs a HalFunction,
\* through mHal->doWithRetry.
halCall(outcomes) ==
    LET r == doWithRetry(outcomes)
    IN  [result |-> r.result, attempts |-> r.attempts, accepted |-> r.accepted,
         path |-> "halCall", value |-> Void]

\* A HalFunction run on the HAL handle once, not through halCall.
directCall(outcomes) ==
    LET o == outcomes[1]
    IN  [result |-> IF o \in {"Ok", "Unsupported"} THEN o ELSE "Failed",
         attempts |-> 1, accepted |-> (o = "Ok"), path |-> "direct", value |-> Void]

isOk(r) == r.result = "Ok"

isUnsupported(r) == r.result = "Unsupported"

\* halCall<std::chrono::milliseconds>: an Ok result holds the duration the
\* hardware reported.
halCallReporting(outcomes, halDuration) ==
    LET r == halCall(outcomes)
    IN  IF isOk(r) THEN [r EXCEPT !.value = halDuration] ELSE r

(***************************************************************************)
(* The JNI surface.                                                        *)
(***************************************************************************)
NULL == "nullptr"

WrapperPtr == "wrapper"

VibratorIds == {2}

VibrationIds == {7, 8}

Timeouts == {0, 100}

\* Outcomes of a use of the wrapper after delete: the access traps, or it
\* reads what the freed object last held.
UseAfterFree == {"trap", "stale"}

Running == [state |-> "running", at |-> "none"]

\* LOG_ALWAYS_FATAL_IF in the constructor
Aborted(at) == [state |-> "aborted", at |-> at]

Trapped(at) == [state |-> "trapped", at |-> at]

\* The process after a use of the wrapper at `at` that did not trap: past a
\* use after free nothing about its behaviour is defined, and the model
\* follows it no further.
AfterUse(ub, at) == IF ub = "stale" THEN [state |-> "undefined", at |-> at] ELSE Running

\* The jlong values a caller can pass as ptr.
Ptrs == IF lifecycle = "Uninitialized" THEN {NULL} ELSE {NULL, WrapperPtr}

\* What a use of the wrapper can do in the current state.
Uses == IF lifecycle = "Disposed" THEN UseAfterFree ELSE {"valid"}

\* The values of an argument that make a difference: with a null ptr the
\* function returns before it reads any.
Args(ptr, S) == IF ptr = NULL THEN {CHOOSE x \in S : TRUE} ELSE S

NoObject == [null |-> TRUE]

\* The arguments of a function whose arguments the model does not follow.
NoArgs == [none |-> TRUE]

\* The record of one JNI call: args is what the caller passed besides ptr and
\* vibrationId, ret the jlong or jboolean returned (0 for void and for jobject,
\* whose value is obj), attempts the number of times the HAL function ran,
\* value the value() of its result, path how mHal was reached, callbacks the
\* number of completion callbacks created, sent the sequence the HAL function
\* carried.
Call(op, ptr, target, args, ret, r, callbacks, sent, obj) ==
    [op |-> op, ptr |-> ptr, target |-> target, args |-> args, ret |-> ret,
     result |-> r.result, attempts |-> r.attempts, value |-> r.value,
     path |-> r.path, callbacks |-> callbacks, sent |-> sent, obj |-> obj]

NoHal == [result |-> "none", attempts |-> 0, accepted |-> FALSE, path |-> "none",
          value |-> Void]

NoCall == Call("none", NULL, "null", NoArgs, 0, NoHal, 0, <<>>, NoObject)

JNI_TRUE == 1

JNI_FALSE == 0

\* A closure that keeps the wrapper and loses the vibrationId.
createCallbackDroppingId(vibrationId) == [vibrationId |-> 0, this |-> WrapperPtr]

\* The closure createCallback returns: vibrationId by value, the wrapper by
\* raw pointer.
createCallback(vibrationId) == [vibrationId |-> vibrationId, this |-> WrapperPtr]

invokeCallbackTwice(callback, i, ub) ==
    IF lifecycle = "Disposed" /\ ub = "trap"
    THEN /\ process' = Trapped("callback")
         /\ UNCHANGED delivered
    ELSE /\ delivered' = delivered (+) SetToBag({[listener |-> mCallbackListener,
                                                  vibratorId |-> mVibratorId,
                                                  vibrationId |-> callback.vibrationId,
                                                  req |-> i]})
                                   (+) SetToBag({[listener |-> mCallbackListener,
                                                  vibratorId |-> mVibratorId,
                                                  vibrationId |-> callback.vibrationId,
                                                  req |-> i]})
         /\ process' = AfterUse(ub, "callback")

\* The closure's body, run by the HAL for request i: it reads mCallbackListener
\* and mVibratorId through this and calls onComplete on the listener.  Once the
\* wrapper is deleted that read is a use after free.
invokeCallback(callback, i, ub) ==
    IF lifecycle = "Disposed" /\ ub = "trap"
    THEN /\ process' = Trapped("callback")
         /\ UNCHANGED delivered
    ELSE /\ delivered' = delivered (+) SetToBag({[listener |-> mCallbackListener,
                                                  vibratorId |-> mVibratorId,
                                                  vibrationId |-> callback.vibrationId,
                                                  req |-> i]})
         /\ process' = AfterUse(ub, "callback")

\* A JNI function's use of the deleted wrapper that traps.
jniFault(op, ptr) ==
    /\ process' = Trapped(op)
    /\ lastCall' = Call(op, ptr, lifecycle, NoArgs, 0, NoHal, 0, <<>>, NoObject)
    /\ UNCHANGED <<lifecycle, mHal, mVibratorId, mCallbackListener, requests, pending,
                   delivered>>

\* A plainCall that writes to the wrapper it is given.
plainCallReassigning(op, ptr, nullRet, ret, r, ub) ==
    IF ptr = NULL
    THEN /\ lastCall' = Call(op, ptr, "null", NoArgs, nullRet, NoHal, 0, <<>>, NoObject)
         /\ UNCHANGED <<lifecycle, mHal, mVibratorId, mCallbackListener, requests, pending,
                        delivered, process>>
    ELSE /\ lastCall' = Call(op, ptr, lifecycle, NoArgs, ret, r, 0, <<>>, NoObject)
         /\ mVibratorId' = 0
         /\ process' = AfterUse(ub, op)
         /\ UNCHANGED <<lifecycle, mHal, mCallbackListener, requests, pending, delivered>>

\* The shape shared by the functions that create no callback: the null check,
\* then one halCall.  nullRet is what the null check returns, ret what the
\* function makes of r, the result of its halCall.
plainCall(op, ptr, nullRet, ret, r, ub) ==
    IF ptr = NULL
    THEN /\ lastCall' = Call(op, ptr, "null", NoArgs, nullRet, NoHal, 0, <<>>, NoObject)
         /\ UNCHANGED <<lifecycle, mHal, mVibratorId, mCallbackListener, requests, pending,
                        delivered, process>>
    ELSE IF lifecycle = "Disposed" /\ ub = "trap"
    THEN jniFault(op, ptr)
    ELSE /\ lastCall' = Call(op, ptr, lifecycle, NoArgs, ret, r, 0, <<>>, NoObject)
         /\ process' = AfterUse(ub, op)
         /\ UNCHANGED <<lifecycle, mHal, mVibratorId, mCallbackListener, requests, pending,
                        delivered>>

\* A completableCall whose null check returns as that of a void function does.
completableCallReturningZeroOnNull(op, ptr, args, vibrationId, sent, ret, r, ub) ==
    IF ptr = NULL
    THEN /\ lastCall' = Call(op, ptr, "null", args, 0, NoHal, 0, <<>>, NoObject)
         /\ UNCHANGED <<lifecycle, mHal, mVibratorId, mCallbackListener, requests, pending,
                        delivered, process>>
    ELSE IF lifecycle = "Disposed" /\ ub = "trap"
    THEN jniFault(op, ptr)
    ELSE /\ Len(requests) < MaxRequests
         /\ requests' = Append(requests, [vibrationId |-> vibrationId,
                                          callback |-> createCallback(vibrationId),
                                          result |-> r.result])
         /\ pending' = IF r.accepted THEN pending \cup {Len(requests) + 1} ELSE pending
         /\ lastCall' = Call(op, ptr, lifecycle, args, ret, r, 1, sent, NoObject)
         /\ process' = AfterUse(ub, op)
         /\ UNCHANGED <<lifecycle, mHal, mVibratorId, mCallbackListener, delivered>>

\* The shape shared by vibratorOn, vibratorPerformEffect,
\* vibratorPerformComposedEffect and vibratorPerformPwleEffect: the null check,
\* createCallback, one halCall of a function that hands the callback to the
\* HAL (with sent, for the composed and PWLE effects), the jlong made of the
\* result.
completableCall(op, ptr, args, vibrationId, sent, ret, r, ub) ==
    IF ptr = NULL
    THEN /\ lastCall' = Call(op, ptr, "null", args, -1, NoHal, 0, <<>>, NoObject)
         /\ UNCHANGED <<lifecycle, mHal, mVibratorId, mCallbackListener, requests, pending,
                        delivered, process>>
    ELSE IF lifecycle = "Disposed" /\ ub = "trap"
    THEN jniFault(op, ptr)
    ELSE /\ Len(requests) < MaxRequests
         /\ requests' = Append(requests, [vibrationId |-> vibrationId,
                                          callback |-> createCallback(vibrationId),
                                          result |-> r.result])
         /\ pending' = IF r.accepted THEN pending \cup {Len(requests) + 1} ELSE pending
         /\ lastCall' = Call(op, ptr, lifecycle, args, ret, r, 1, sent, NoObject)
         /\ process' = AfterUse(ub, op)
         /\ UNCHANGED <<lifecycle, mHal, mVibratorId, mCallbackListener, delivered>>

(***************************************************************************)
(* Actions of the controller.                                              *)
(***************************************************************************)
\* findVibrator or NewGlobalRef may return nullptr, which the constructor
\* treats as fatal; initHal reaches mHal directly.
vibratorNativeInit ==
    /\ process = Running
    /\ lifecycle = "Uninitialized"
    /\ \E vibratorId \in VibratorIds, found \in BOOLEAN, globalRef \in BOOLEAN :
          IF found /\ globalRef
          THEN /\ lifecycle' = "Ready"
               /\ mHal' = "connected"
               /\ mVibratorId' = vibratorId
               /\ mCallbackListener' = "live"
               /\ lastCall' = Call("nativeInit", WrapperPtr, "Ready", NoArgs, 0,
                                   [NoHal EXCEPT !.path = "direct", !.attempts = 1],
                                   0, <<>>, NoObject)
               /\ UNCHANGED <<requests, pending, delivered, process>>
          ELSE /\ process' = Aborted("nativeInit")
               /\ UNCHANGED <<lifecycle, mHal, mVibratorId, mCallbackListener, requests,
                              pending, delivered, lastCall>>
    /\ UNCHANGED <<pwle, getInfo, retry>>

\* The native finalizer: nothing on a null ptr, else delete wrapper, whose
\* destructor deletes the global reference to the listener.  A second delete
\* of the same wrapper is a use after free.
destroyNativeWrapper ==
    /\ process = Running
    /\ \E ptr \in Ptrs, ub \in Uses :
          IF ptr = NULL
          THEN /\ lastCall' = Call("destroyNativeWrapper", ptr, "null", NoArgs, 0, NoHal,
                                   0, <<>>, NoObject)
               /\ UNCHANGED <<lifecycle, mHal, mCallbackListener, process>>
          ELSE IF lifecycle = "Disposed" /\ ub = "trap"
          THEN /\ lastCall' = Call("destroyNativeWrapper", ptr, lifecycle, NoArgs, 0, NoHal,
                                   0, <<>>, NoObject)
               /\ process' = Trapped("destroyNativeWrapper")
               /\ UNCHANGED <<lifecycle, mHal, mCallbackListener>>
          ELSE /\ lastCall' = Call("destroyNativeWrapper", ptr, lifecycle, NoArgs, 0, NoHal,
                                   0, <<>>, NoObject)
               /\ lifecycle' = "Disposed"
               /\ mHal' = "released"
               /\ mCallbackListener' = "deleted"
               /\ process' = AfterUse(ub, "destroyNativeWrapper")
    /\ UNCHANGED <<mVibratorId, requests, pending, delivered, pwle, getInfo, retry>>

vibratorIsAvailable ==
    /\ process = Running
    /\ \E ptr \in Ptrs :
       \E outcomes \in Args(ptr, HalOutcomeSeqs), ub \in Uses :
          LET r == halCall(outcomes)
          IN  plainCall("isAvailable", ptr, JNI_FALSE,
                        IF isOk(r) THEN JNI_TRUE ELSE JNI_FALSE, r, ub)
    /\ UNCHANGED <<pwle, getInfo, retry>>

\* The return of vibratorOn with 0 and -1 the other way round.
onReturnSwapped(r, timeoutMs) ==
    IF isOk(r) THEN timeoutMs ELSE (IF isUnsupported(r) THEN -1 ELSE 0)

onReturn(r, timeoutMs) == IF isOk(r) THEN timeoutMs ELSE (IF isUnsupported(r) THEN 0 ELSE -1)

vibratorOn ==
    /\ process = Running
    /\ \E ptr \in Ptrs :
       \E timeoutMs \in Args(ptr, Timeouts), vibrationId \in Args(ptr, VibrationIds),
          outcomes \in Args(ptr, HalOutcomeSeqs), ub \in Uses :
          LET r == halCall(outcomes)
          IN  completableCall("on", ptr, [timeoutMs |-> timeoutMs], vibrationId, <<>>,
                              onReturn(r, timeoutMs), r, ub)
    /\ UNCHANGED <<pwle, getInfo, retry>>

voidCallBypassingRetry(op) ==
    /\ process = Running
    /\ \E ptr \in Ptrs :
       \E outcomes \in Args(ptr, HalOutcomeSeqs), ub \in Uses :
          plainCall(op, ptr, 0, 0, directCall(outcomes), ub)
    /\ UNCHANGED <<pwle, getInfo, retry>>

\* vibratorOff, vibratorSetAmplitude, vibratorSetExternalControl,
\* vibratorAlwaysOnEnable, vibratorAlwaysOnDisable: the null check, then one
\* halCall whose result is dropped.
voidCall(op) ==
    /\ process = Running
    /\ \E ptr \in Ptrs :
       \E outcomes \in Args(ptr, HalOutcomeSeqs), ub \in Uses :
          plainCall(op, ptr, 0, 0, halCall(outcomes), ub)
    /\ UNCHANGED <<pwle, getInfo, retry>>

vibratorOff == voidCall("off")

vibratorSetAmplitude == voidCall("setAmplitude")

vibratorSetExternalControl == voidCall("setExternalControl")

vibratorAlwaysOnEnable == voidCall("alwaysOnEnable")

vibratorAlwaysOnDisable == voidCall("alwaysOnDisable")

\* A return that takes the result for a HalResult<void>.
durationReturnOfVoid(r, halDuration) ==
    IF isOk(r) THEN 0 ELSE (IF isUnsupported(r) THEN 0 ELSE -1)

\* result.value().count() when the HAL reported a duration
durationReturn(r, halDuration) ==
    IF isOk(r) THEN halDuration ELSE (IF isUnsupported(r) THEN 0 ELSE -1)

vibratorPerformEffect ==
    /\ process = Running
    /\ \E ptr \in Ptrs :
       \E vibrationId \in Args(ptr, VibrationIds),
          outcomes \in Args(ptr, HalOutcomeSeqs),
          halDuration \in Args(ptr, HalDurations), ub \in Uses :
          LET r == halCallReporting(outcomes, halDuration)
          IN  completableCall("performEffect", ptr, NoArgs, vibrationId, <<>>,
                              durationReturn(r, halDuration), r, ub)
    /\ UNCHANGED <<pwle, getInfo, retry>>

\* android.os.vibrator.PrimitiveSegment arrays the controller is driven with
\* (mScale in tenths).
SampleCompositions ==
    {<<>>, <<[mPrimitiveId |-> 1, mScale |-> 10, mDelay |-> 0]>>}

effectFromJavaPrimitive(primitive) ==
    [primitive |-> primitive.mPrimitiveId, scale |-> primitive.mScale,
     delayMs |-> primitive.mDelay]

vibratorPerformComposedEffect ==
    /\ process = Running
    /\ \E ptr \in Ptrs :
       \E composition \in Args(ptr, SampleCompositions),
          vibrationId \in Args(ptr, VibrationIds),
          outcomes \in Args(ptr, HalOutcomeSeqs),
          halDuration \in Args(ptr, HalDurations), ub \in Uses :
          LET effects == [i \in 1..Len(composition) |->
                             effectFromJavaPrimitive(composition[i])]
              r == halCallReporting(outcomes, halDuration)
          IN  completableCall("performComposedEffect", ptr, NoArgs, vibrationId, effects,
                              durationReturn(r, halDuration), r, ub)
    /\ UNCHANGED <<pwle, getInfo, retry>>

Ramp(startAmplitude, endAmplitude, duration) ==
    [mStartAmplitude |-> startAmplitude, mEndAmplitude |-> endAmplitude,
     mStartFrequency |-> 150, mEndFrequency |-> 150, mDuration |-> duration]

\* The waveforms and braking the controller is driven with.
SamplePwle ==
    {[waveform |-> <<>>, braking |-> "CLAB"],
     [waveform |-> <<Ramp(5, 0, 20)>>, braking |-> BrakingNONE],
     [waveform |-> <<Ramp(0, 0, 10), Ramp(5, 0, 20)>>, braking |-> "CLICK"]}

\* A return that gives 0 whenever the result is not Ok.
pwleReturnFailingAsUnsupported(r, totalDuration) ==
    IF isOk(r) THEN totalDuration ELSE 0

\* A return that tells Unsupported from nothing.
pwleReturnWithoutUnsupported(r, totalDuration) ==
    IF isOk(r) THEN totalDuration ELSE -1

pwleReturn(r, totalDuration) ==
    IF isOk(r) THEN totalDuration ELSE (IF isUnsupported(r) THEN 0 ELSE -1)

vibratorPerformPwleEffect ==
    /\ process = Running
    /\ \E ptr \in Ptrs :
       \E input \in Args(ptr, SamplePwle),
          vibrationId \in Args(ptr, VibrationIds),
          outcomes \in Args(ptr, HalOutcomeSeqs), ub \in Uses :
          LET compiled == compilePwle(input.waveform, input.braking)
              r == halCall(outcomes)
          IN  completableCall("performPwleEffect", ptr, input, vibrationId,
                              compiled.primitives,
                              pwleReturn(r, compiled.totalDuration), r, ub)
    /\ UNCHANGED <<pwle, getInfo, retry>>

\* The HAL's thread runs the callback it holds for request i, once.
HalComplete ==
    /\ process = Running
    /\ \E i \in pending, ub \in Uses :
          /\ pending' = pending \ {i}
          /\ invokeCallback(requests[i].callback, i, ub)
    /\ UNCHANGED <<lifecycle, mHal, mVibratorId, mCallbackListener, requests, lastCall,
                   pwle, getInfo, retry>>

(***************************************************************************)
(* vibratorGetInfo (lines 355-407).                                        *)
(***************************************************************************)
\* A field of vibrator::Info is a HalResult: a reported value, or none.
Reported(v) == [ok |-> TRUE, value |-> v]

NoScalar == [ok |-> FALSE, value |-> 0]

NoVector == [ok |-> FALSE, value |-> <<>>]

valueOr(field, default) == IF field.ok THEN field.value ELSE default

\* vibrator::Capabilities::NONE
CapabilitiesNONE == 0

\* What the hardware may report.  A float field may hold any float, NaN too.
HalCapabilities == {NoScalar, Reported(0), Reported(3)}

HalFloats == {NoScalar, Reported(0), Reported(1500), Reported(NaN)}

HalVectors == {NoVector, Reported(<<>>), Reported(<<0, 1>>)}

HalInfos ==
    [capabilities : HalCapabilities,
     minFrequency : HalFloats, resonantFrequency : HalFloats,
     frequencyResolution : HalFloats, qFactor : HalFloats,
     supportedEffects : HalVectors, supportedBraking : HalVectors,
     supportedPrimitives : HalVectors, maxAmplitudes : HalVectors]

\* A jintArray or jfloatArray reference: nullptr, or an array with its elements.
NullArray == [null |-> TRUE, elems |-> <<>>]

\* NewIntArray(size) followed by SetIntArrayRegion(array, 0, size, data)
newArray(data) == [null |-> FALSE, elems |-> [i \in 1..Len(data) |-> data[i]]]

infoCapabilities(info) == valueOr(info.capabilities, CapabilitiesNONE)

floatOrZero(field) == valueOr(field, 0)

floatOrNaN(field) == valueOr(field, NaN)

arrayOrNull(field) == IF field.ok THEN newArray(field.value) ELSE NullArray

\* The android.os.VibratorInfo built from info, as its constructor receives it.
vibratorInfoObject(vibratorId, info, suggestedSafeRange) ==
    [null |-> FALSE,
     id |-> vibratorId,
     capabilities |-> infoCapabilities(info),
     supportedEffects |-> arrayOrNull(info.supportedEffects),
     supportedBraking |-> arrayOrNull(info.supportedBraking),
     supportedPrimitives |-> arrayOrNull(info.supportedPrimitives),
     qFactor |-> floatOrNaN(info.qFactor),
     frequencyMapping |->
         [minFrequency |-> floatOrNaN(info.minFrequency),
          resonantFrequency |-> floatOrNaN(info.resonantFrequency),
          frequencyResolution |-> floatOrNaN(info.frequencyResolution),
          suggestedSafeRange |-> suggestedSafeRange,
          maxAmplitudes |-> arrayOrNull(info.maxAmplitudes)]]

NothingReported ==
    [capabilities |-> NoScalar,
     minFrequency |-> NoScalar, resonantFrequency |-> NoScalar,
     frequencyResolution |-> NoScalar, qFactor |-> NoScalar,
     supportedEffects |-> NoVector, supportedBraking |-> NoVector,
     supportedPrimitives |-> NoVector, maxAmplitudes |-> NoVector]

AllReported ==
    [capabilities |-> Reported(3),
     minFrequency |-> Reported(0), resonantFrequency |-> Reported(1500),
     frequencyResolution |-> Reported(0), qFactor |-> Reported(1500),
     supportedEffects |-> Reported(<<0, 1>>), supportedBraking |-> Reported(<<>>),
     supportedPrimitives |-> Reported(<<0, 1>>), maxAmplitudes |-> Reported(<<>>)]

\* The infos the controller is driven with.
SampleInfos == {NothingReported, AllReported}

SafeRanges == {100}

\* VibratorControllerWrapper::getVibratorInfo: mHal->getInfo(), not a halCall.
getVibratorInfo == [NoHal EXCEPT !.path = "direct", !.attempts = 1]

vibratorGetInfo ==
    /\ process = Running
    /\ \E ptr \in Ptrs :
       \E info \in Args(ptr, SampleInfos),
          suggestedSafeRange \in Args(ptr, SafeRanges), ub \in Uses :
          IF ptr = NULL
          THEN /\ lastCall' = Call("getInfo", ptr, "null", NoArgs, 0, NoHal, 0, <<>>,
                                   NoObject)
               /\ UNCHANGED <<lifecycle, mHal, mVibratorId, mCallbackListener, requests,
                              pending, delivered, process>>
          ELSE IF lifecycle = "Disposed" /\ ub = "trap"
          THEN jniFault("getInfo", ptr)
          ELSE /\ lastCall' = Call("getInfo", ptr, lifecycle, NoArgs, 0, getVibratorInfo, 0,
                                   <<>>,
                                   vibratorInfoObject(mVibratorId, info, suggestedSafeRange))
               /\ process' = AfterUse(ub, "getInfo")
               /\ UNCHANGED <<lifecycle, mHal, mVibratorId, mCallbackListener, requests,
                              pending, delivered>>
    /\ UNCHANGED <<pwle, getInfo, retry>>

(***************************************************************************)
(* The controller: one wrapper, its JNI functions called in any order and  *)
(* with any handle, the HAL completing the requests it accepted.           *)
(***************************************************************************)
PwleIdle == [pc |-> "idle", waveform |-> <<>>, braking |-> BrakingNONE,
             primitives |-> <<>>, totalDuration |-> 0]

GetInfoIdle == [pc |-> "idle", info |-> NothingReported, obj |-> NoObject]

RetryIdle == [pc |-> "idle", functionName |-> "none", outcomes |-> <<>>, result |-> NoHal]

ControllerInit ==
    /\ lifecycle = "Uninitialized"
    /\ mHal = "none"
    /\ mVibratorId = 0
    /\ mCallbackListener = "none"
    /\ requests = <<>>
    /\ pending = {}
    /\ delivered = EmptyBag
    /\ lastCall = NoCall
    /\ process = Running

Init ==
    /\ ControllerInit
    /\ pwle = PwleIdle
    /\ getInfo = GetInfoIdle
    /\ retry = RetryIdle

Next ==
    \/ vibratorNativeInit
    \/ destroyNativeWrapper
    \/ vibratorIsAvailable
    \/ vibratorOn
    \/ vibratorOff
    \/ vibratorSetAmplitude
    \/ vibratorSetExternalControl
    \/ vibratorPerformEffect
    \/ vibratorPerformComposedEffect
    \/ vibratorPerformPwleEffect
    \/ vibratorAlwaysOnEnable
    \/ vibratorAlwaysOnDisable
    \/ vibratorGetInfo
    \/ HalComplete

Spec == Init /\ [][Next]_vars

(***************************************************************************)
(* The PWLE compilation on every waveform of up to MaxLen segments.        *)
(***************************************************************************)
PwleInit ==
    /\ ControllerInit
    /\ getInfo = GetInfoIdle
    /\ retry = RetryIdle
    /\ \E waveform \in SeqsUpTo(RampSegments, MaxLen), braking \in BrakingKinds :
          pwle = [pc |-> "input", waveform |-> waveform, braking |-> braking,
                  primitives |-> <<>>, totalDuration |-> 0]

PwleCompile ==
    /\ pwle.pc = "input"
    /\ LET compiled == compilePwle(pwle.waveform, pwle.braking)
       IN  pwle' = [pwle EXCEPT !.pc = "compiled",
                                !.primitives = compiled.primitives,
                                !.totalDuration = compiled.totalDuration]
    /\ UNCHANGED <<controllerVars, getInfo, retry>>

PwleNext == PwleCompile

SpecPwle == PwleInit /\ [][PwleNext]_vars

(***************************************************************************)
(* The conversion of vibratorGetInfo on every vibrator::Info.              *)
(***************************************************************************)
GetInfoInit ==
    /\ ControllerInit
    /\ pwle = PwleIdle
    /\ retry = RetryIdle
    /\ \E info \in HalInfos :
          getInfo = [pc |-> "input", info |-> info, obj |-> NoObject]

GetInfoConvert ==
    /\ getInfo.pc = "input"
    /\ \E vibratorId \in VibratorIds, suggestedSafeRange \in SafeRanges :
          getInfo' = [getInfo EXCEPT
                        !.pc = "converted",
                        !.obj = vibratorInfoObject(vibratorId, getInfo.info,
                                                   suggestedSafeRange)]
    /\ UNCHANGED <<controllerVars, pwle, retry>>

GetInfoNext == GetInfoConvert

SpecGetInfo == GetInfoInit /\ [][GetInfoNext]_vars

(***************************************************************************)
(* One halCall on every series of answers the hardware can give.           *)
(***************************************************************************)
\* The functionName each JNI function passes to halCall.
FunctionNames ==
    {"ping", "on", "off", "setAmplitude", "setExternalControl", "performEffect",
     "performComposedEffect", "performPwleEffect", "alwaysOnEnable", "alwaysOnDisable"}

\* What the hardware would answer to each of the attempts a call can make,
\* whether or not the call goes on to make them.
HalAnswers == [1..(MaxRetries + 1) -> HalOutcomes]

RetryInit ==
    /\ ControllerInit
    /\ pwle = PwleIdle
    /\ getInfo = GetInfoIdle
    /\ \E functionName \in FunctionNames, outcomes \in HalAnswers :
          retry = [pc |-> "called", functionName |-> functionName,
                   outcomes |-> outcomes, result |-> NoHal]

HalCallReturn ==
    /\ retry.pc = "called"
    /\ retry' = [retry EXCEPT !.pc = "returned", !.result = halCall(retry.outcomes)]
    /\ UNCHANGED <<controllerVars, pwle, getInfo>>

RetryNext == HalCallReturn

SpecRetry == RetryInit /\ [][RetryNext]_vars

(***************************************************************************)
(* Properties of the controller (specification Spec).                      *)
(***************************************************************************)
\* The JNI functions that take the native handle and command the actuator.
PublicOps ==
    {"isAvailable", "on", "off", "setAmplitude", "setExternalControl", "performEffect",
     "performComposedEffect", "performPwleEffect", "alwaysOnEnable", "alwaysOnDisable",
     "getInfo"}

CompletableOps == {"on", "performEffect", "performComposedEffect", "performPwleEffect"}

\* The number of onComplete calls made by the callback of request i.
DeliveredOf(i) ==
    BagCardinality([d \in {x \in BagToSet(delivered) : x.req = i} |-> delivered[d]])

\* C1: a completion callback that runs after the teardown of its controller
\* never reads the freed wrapper and never calls onComplete on the released
\* listener reference: the notification is dropped.
C1_CallbackAfterTeardownDropped ==
    /\ process.at # "callback"
    /\ \A d \in BagToSet(delivered) : d.listener = "live"

\* C2: a public operation called on a Disposed controller is reported as
\* Failed (the error value of the function) and makes no hardware call.
C2_DisposedReportedFailed ==
    (lastCall.op \in PublicOps /\ lastCall.target = "Disposed")
        => /\ process = Running
           /\ lastCall.attempts = 0
           /\ lastCall.ret = (IF lastCall.op \in CompletableOps THEN -1 ELSE 0)
           /\ lastCall.obj = NoObject

\* C4 as stated: every hardware call of a public operation, the capability
\* query of getInfo included, is issued through halCall.
C4_EveryCallThroughHalCall ==
    (lastCall.op \in PublicOps /\ lastCall.attempts > 0) => lastCall.path = "halCall"

\* C4 as amended: every hardware call of a public operation other than getInfo
\* is issued through halCall; the capability query of getInfo reaches mHal
\* directly through getVibratorInfo.
C4_CallsThroughHalCallExceptGetInfo ==
    /\ (lastCall.op \in PublicOps \ {"getInfo"} /\ lastCall.attempts > 0)
          => lastCall.path = "halCall"
    /\ (lastCall.op = "getInfo" /\ lastCall.attempts > 0) => lastCall.path = "direct"

C4_Witness ==
    /\ lastCall.op = "setAmplitude"
    /\ lastCall.target = "Ready"
    /\ lastCall.attempts = MaxRetries + 1
    /\ lastCall.path = "halCall"

\* C5: a request whose result is Failed never has onComplete delivered for it,
\* in this state or any later one.
C5_FailedNeverCompleted ==
    \A i \in 1..Len(requests) : requests[i].result = "Failed" => DeliveredOf(i) = 0

\* A request failed after the retry budget was used up, no callback is left
\* with the HAL, and the listener has heard of another request only.
C5_Witness ==
    /\ process = Running
    /\ lastCall.op \in CompletableOps
    /\ lastCall.result = "Failed"
    /\ lastCall.ret = -1
    /\ lastCall.attempts = MaxRetries + 1
    /\ requests[Len(requests)].result = "Failed"
    /\ pending = {}
    /\ delivered # EmptyBag

\* C6: while the controller is Ready, a request the hardware accepted has had
\* no onComplete as long as the HAL holds its callback and exactly one once
\* the HAL has invoked it: the callback neither duplicates nor drops a signal,
\* however many attempts handed it to the HAL.
C6_ExactlyOneCompletion ==
    (lifecycle = "Ready" /\ process = Running)
        => \A i \in 1..Len(requests) :
              requests[i].result = "Ok"
                  => DeliveredOf(i) = (IF i \in pending THEN 0 ELSE 1)

\* The callback of a request that took a retry to reach the hardware has run.
C6_Witness ==
    /\ lifecycle = "Ready"
    /\ process = Running
    /\ lastCall.op = "performEffect"
    /\ lastCall.result = "Ok"
    /\ lastCall.attempts = MaxRetries + 1
    /\ Len(requests) \notin pending
    /\ DeliveredOf(Len(requests)) = 1

\* C12: while the controller is Ready, every onComplete its callbacks have made
\* went to the controller's live listener with the controller's vibrator id
\* and the vibrationId of the request the callback was created for, in
\* whatever order the callbacks of the outstanding requests were invoked.
C12_CallbackDeliversItsPair ==
    lifecycle = "Ready"
        => \A d \in BagToSet(delivered) :
              /\ d.listener = "live"
              /\ d.vibratorId = mVibratorId
              /\ d.vibratorId \in VibratorIds
              /\ d.vibrationId = requests[d.req].vibrationId

\* Two requests with different vibrationIds are outstanding and the callback
\* of the second has run before that of the first.
C12_Witness ==
    /\ lifecycle = "Ready"
    /\ Len(requests) = 2
    /\ requests[1].vibrationId # requests[2].vibrationId
    /\ 1 \in pending
    /\ DeliveredOf(2) = 1
    /\ \E d \in BagToSet(delivered) : d.req = 2 /\ d.vibrationId = requests[2].vibrationId

\* C13: vibratorPerformPwleEffect on a Ready controller returns the
\* totalDuration its compilation loop computed when the result of the halCall
\* is Ok (that result is a HalResult<void>: the hardware reports no duration),
\* 0 when it is Unsupported and -1 when it is Failed.
C13_PwleReturnsCompiledDuration ==
    (lastCall.op = "performPwleEffect" /\ lastCall.target = "Ready")
        => LET compiled == compilePwle(lastCall.args.waveform, lastCall.args.braking)
           IN  /\ lastCall.result \in {"Ok", "Unsupported", "Failed"}
               /\ lastCall.result = "Ok" => lastCall.ret = compiled.totalDuration
               /\ lastCall.result = "Unsupported" => lastCall.ret = 0
               /\ lastCall.result = "Failed" => lastCall.ret = -1
               /\ lastCall.value = Void

C13_Witness ==
    /\ lastCall.op = "performPwleEffect"
    /\ lastCall.target = "Ready"
    /\ lastCall.args.waveform = <<Ramp(0, 0, 10), Ramp(5, 0, 20)>>
    /\ lastCall.args.braking = "CLICK"
    /\ lastCall.result = "Ok"
    /\ lastCall.ret = 30

\* C14: vibratorOn on a Ready controller returns timeoutMs when the result of
\* the halCall is Ok, 0 when it is Unsupported and -1 when it is Failed.
C14_OnReturnsTimeout ==
    (lastCall.op = "on" /\ lastCall.target = "Ready")
        => /\ lastCall.result \in {"Ok", "Unsupported", "Failed"}
           /\ lastCall.result = "Ok" => lastCall.ret = lastCall.args.timeoutMs
           /\ lastCall.result = "Unsupported" => lastCall.ret = 0
           /\ lastCall.result = "Failed" => lastCall.ret = -1

\* A timeout of 100 that the hardware declines: 0 comes back, not 100.
C14_Witness ==
    /\ lastCall.op = "on"
    /\ lastCall.target = "Ready"
    /\ lastCall.args.timeoutMs = 100
    /\ lastCall.result = "Unsupported"
    /\ lastCall.ret = 0

\* C15: vibratorPerformEffect on a Ready controller returns the duration the
\* hardware reported when the result of the halCall is Ok, 0 when it is
\* Unsupported and -1 when it is Failed.
C15_PerformEffectReturnsReported ==
    (lastCall.op = "performEffect" /\ lastCall.target = "Ready")
        => /\ lastCall.result \in {"Ok", "Unsupported", "Failed"}
           /\ lastCall.result = "Ok"
                 => (lastCall.value \in HalDurations /\ lastCall.ret = lastCall.value)
           /\ lastCall.result = "Unsupported" => (lastCall.value = Void /\ lastCall.ret = 0)
           /\ lastCall.result = "Failed" => lastCall.ret = -1

\* The hardware reports a duration of 50 and 50 comes back.
C15_Witness ==
    /\ lastCall.op = "performEffect"
    /\ lastCall.target = "Ready"
    /\ lastCall.result = "Ok"
    /\ lastCall.value = 50
    /\ lastCall.ret = 50

\* What a step may do to the wrapper: create it, delete it, or leave its
\* three members as they are.
LifecycleStep ==
    /\ lifecycle' # lifecycle
          => \/ /\ lifecycle = "Uninitialized"
                /\ lifecycle' = "Ready"
                /\ lastCall'.op = "nativeInit"
             \/ /\ lifecycle = "Ready"
                /\ lifecycle' = "Disposed"
                /\ lastCall'.op = "destroyNativeWrapper"
    /\ lifecycle' = lifecycle => UNCHANGED <<mHal, mVibratorId, mCallbackListener>>
    /\ lifecycle = "Disposed" => lifecycle' = "Disposed"

\* C17: the lifecycle only moves Uninitialized -> Ready (vibratorNativeInit)
\* -> Disposed (destroyNativeWrapper); every other step, the command functions
\* and the callbacks in Ready among them, leaves the lifecycle, mHal,
\* mVibratorId and mCallbackListener as they are; a Disposed wrapper stays
\* Disposed.
C17_LifecycleOnlyForward == [][LifecycleStep]_vars

\* A wrapper that took two requests and an amplitude while Ready, and was
\* then deleted.
C17_Witness ==
    /\ lifecycle = "Disposed"
    /\ process = Running
    /\ mHal = "released"
    /\ mVibratorId \in VibratorIds
    /\ Len(requests) >= 2
    /\ lastCall.op = "destroyNativeWrapper"

\* C19: the empty waveform compiles, with any braking, to no primitive and
\* totalDuration 0; vibratorPerformPwleEffect on a Ready controller still
\* creates the callback and runs the HAL function with the empty sequence,
\* and returns 0 when the result is Ok.
C19_EmptyWaveformStillSent ==
    /\ \A braking \in BrakingKinds :
          compilePwle(<<>>, braking) = [primitives |-> <<>>, totalDuration |-> 0]
    /\ (lastCall.op = "performPwleEffect" /\ lastCall.target = "Ready"
            /\ lastCall.args.waveform = <<>>)
          => /\ lastCall.sent = <<>>
             /\ lastCall.callbacks = 1
             /\ lastCall.attempts >= 1
             /\ lastCall.path = "halCall"
             /\ lastCall.result = "Ok" => lastCall.ret = 0

C19_Witness ==
    /\ lastCall.op = "performPwleEffect"
    /\ lastCall.target = "Ready"
    /\ lastCall.args = [waveform |-> <<>>, braking |-> "CLAB"]
    /\ lastCall.sent = <<>>
    /\ lastCall.attempts = 1
    /\ lastCall.result = "Ok"
    /\ lastCall.ret = 0
    /\ Len(requests) \in pending

\* What a public function called with a null ptr does: it returns its error
\* value, creates no callback, runs no HAL function and changes nothing.  The
\* step is that of such a call when it leaves a null call in lastCall that
\* was not there before.
NullHandleStep ==
    (lastCall'.ptr = NULL /\ lastCall'.op \in PublicOps
        /\ (lastCall.op # lastCall'.op \/ lastCall.ptr # NULL))
        => /\ lastCall'.ret = (IF lastCall'.op \in CompletableOps THEN -1
                               ELSE IF lastCall'.op = "isAvailable" THEN JNI_FALSE
                               ELSE 0)
           /\ lastCall'.obj = NoObject
           /\ lastCall'.callbacks = 0
           /\ lastCall'.attempts = 0
           /\ lastCall'.path = "none"
           /\ lastCall'.result = "none"
           /\ lastCall'.sent = <<>>
           /\ UNCHANGED <<lifecycle, mHal, mVibratorId, mCallbackListener, requests,
                          pending, delivered, process>>

\* C21: with a null native handle, as the handle of an Uninitialized
\* controller is, vibratorOn, vibratorPerformEffect,
\* vibratorPerformComposedEffect and vibratorPerformPwleEffect return -1,
\* vibratorIsAvailable returns JNI_FALSE, vibratorGetInfo returns null and the
\* void functions just return; none creates a completion callback, reaches
\* the HAL or changes the state of the controller.
C21_NullHandleReturnsError == [][NullHandleStep]_vars

\* A PWLE effect asked of a controller that was never initialized.
C21_Witness ==
    /\ lifecycle = "Uninitialized"
    /\ lastCall.op = "performPwleEffect"
    /\ lastCall.ptr = NULL
    /\ lastCall.ret = -1
    /\ lastCall.callbacks = 0
    /\ lastCall.attempts = 0
    /\ requests = <<>>

\* The value a completable function returns when its result is Ok: the
\* timeout, the duration the hardware reported, the compiled totalDuration.
OkValue ==
    CASE lastCall.op = "on" -> lastCall.args.timeoutMs
      [] lastCall.op \in {"performEffect", "performComposedEffect"} -> lastCall.value
      [] lastCall.op = "performPwleEffect" ->
             compilePwle(lastCall.args.waveform, lastCall.args.braking).totalDuration

CompletedOnReady == lastCall.op \in CompletableOps /\ lastCall.target = "Ready"

\* C22 as stated: for non-negative timeouts and durations, the value returned
\* by vibratorOn and the three perform functions is -1 if and only if the
\* result was Failed and 0 if and only if it was Unsupported; an Ok result
\* returns neither.
C22_ReturnIdentifiesOutcome ==
    CompletedOnReady
        => /\ (lastCall.ret = -1) <=> (lastCall.result = "Failed")
           /\ (lastCall.ret = 0) <=> (lastCall.result = "Unsupported")
           /\ lastCall.result = "Ok" => lastCall.ret \notin {0, -1}

\* C22 as amended: for non-negative timeouts and durations the value is -1 if
\* and only if the result was Failed, and it is 0 if and only if the result
\* was Unsupported or was Ok with a timeout, reported duration or total
\* duration of 0; an Ok result with a positive one returns that positive
\* value.
C22_ReturnIdentifiesOutcomeButZero ==
    CompletedOnReady
        => /\ (lastCall.ret = -1) <=> (lastCall.result = "Failed")
           /\ (lastCall.ret = 0)
                 <=> \/ lastCall.result = "Unsupported"
                     \/ (lastCall.result = "Ok" /\ OkValue = 0)
           /\ (lastCall.result = "Ok" /\ OkValue > 0)
                 => (lastCall.ret = OkValue /\ lastCall.ret \notin {0, -1})

\* A composed effect the hardware played and reported 50 ms for.
C22_Witness ==
    /\ lastCall.op = "performComposedEffect"
    /\ lastCall.target = "Ready"
    /\ lastCall.result = "Ok"
    /\ lastCall.value = 50
    /\ lastCall.ret = 50

(***************************************************************************)
(* Properties of halCall (specification SpecRetry).                        *)
(***************************************************************************)
Returned == retry.pc = "returned"

\* C16: a halCall returns Unsupported exactly when one of the attempts it made
\* answered "not implemented", that attempt is then the last one it made (the
\* only one when it is the first), and a first attempt that succeeds gives Ok
\* after that one attempt.
C16_UnsupportedWithoutRetry ==
    Returned
        => LET r == retry.result
               made == 1..r.attempts
           IN  /\ r.attempts \in 1..(MaxRetries + 1)
               /\ (r.result = "Unsupported")
                     <=> (\E k \in made : retry.outcomes[k] = "Unsupported")
               /\ \A k \in made : retry.outcomes[k] = "Unsupported" => r.attempts = k
               /\ retry.outcomes[1] = "Unsupported" => r.attempts = 1
               /\ retry.outcomes[1] = "Ok" => (r.result = "Ok" /\ r.attempts = 1)

\* "Not implemented" on the first attempt, with a hardware that would have
\* succeeded on a second.
C16_Witness ==
    /\ Returned
    /\ retry.functionName = "performEffect"
    /\ retry.outcomes = <<"Unsupported", "Ok">>
    /\ retry.result.result = "Unsupported"
    /\ retry.result.attempts = 1

(***************************************************************************)
(* Properties of the PWLE compilation (specification SpecPwle).            *)
(***************************************************************************)
Compiled == pwle.pc = "compiled"

\* An ActivePwle primitive as the HAL receives it.
Envelope(startAmplitude, endAmplitude, duration) ==
    [tag |-> "ActivePwle", startAmplitude |-> startAmplitude,
     endAmplitude |-> endAmplitude, startFrequency |-> 150, endFrequency |-> 150,
     duration |-> duration]

Braking(braking, duration) ==
    [tag |-> "BrakingPwle", braking |-> braking, duration |-> duration]

ScenarioA == <<Ramp(0, 0, 10), Ramp(5, 0, 20)>>

IsScenarioA == Compiled /\ pwle.waveform = ScenarioA /\ pwle.braking = "CLICK"

\* C3 as stated: scenario A compiles to [Braking(CLICK,10),
\* Envelope(0.5,0,...,20), Braking(CLICK,0)] with totalDuration 30.
C3_ScenarioAFirstSegmentBraking ==
    IsScenarioA
        => /\ pwle.primitives =
                  <<Braking("CLICK", 10), Envelope(5, 0, 20), Braking("CLICK", 0)>>
           /\ pwle.totalDuration = 30

\* C3 as amended: scenario A compiles to [Envelope(0,0,...,10),
\* Envelope(0.5,0,...,20), Braking(CLICK,0)] with totalDuration 30: the segment
\* at index 0 is emitted as it is.
C3_ScenarioA ==
    IsScenarioA
        => /\ pwle.primitives =
                  <<Envelope(0, 0, 10), Envelope(5, 0, 20), Braking("CLICK", 0)>>
           /\ pwle.totalDuration = 30

C3_Witness == IsScenarioA /\ Len(pwle.primitives) = 3

IsZero(ramp) == ramp.mStartAmplitude = 0 /\ ramp.mEndAmplitude = 0

\* C8: with braking other than NONE, every segment at an index above 0 whose
\* start and end amplitude are both zero is, at the same position of the
\* output, a BrakingPwle of the configured kind and of the segment's duration.
C8_ZeroSegmentReplaced ==
    (Compiled /\ pwle.braking # BrakingNONE)
        => \A k \in 2..Len(pwle.waveform) :
              IsZero(pwle.waveform[k])
                  => /\ k <= Len(pwle.primitives)
                     /\ pwle.primitives[k] =
                            Braking(pwle.braking, pwle.waveform[k].mDuration)

\* A zero segment in the middle of three, between segments that are not zero.
C8_Witness ==
    /\ Compiled
    /\ pwle.braking = "CLAB"
    /\ Len(pwle.waveform) = 3
    /\ ~IsZero(pwle.waveform[1])
    /\ IsZero(pwle.waveform[2])
    /\ pwle.waveform[2].mDuration = 20
    /\ pwle.waveform[3].mStartAmplitude = NaN
    /\ pwle.primitives[2].tag = "BrakingPwle"

EndsDecaying(waveform) ==
    /\ Len(waveform) > 0
    /\ waveform[Len(waveform)].mStartAmplitude # NaN
    /\ waveform[Len(waveform)].mStartAmplitude > 0
    /\ waveform[Len(waveform)].mEndAmplitude = 0

\* C9: with braking other than NONE, a waveform whose last segment starts above
\* zero and ends at zero compiles to one element more than it has segments,
\* the last a BrakingPwle of the configured kind and duration 0.
C9_TrailingBrakingAppended ==
    (Compiled /\ pwle.braking # BrakingNONE /\ EndsDecaying(pwle.waveform))
        => /\ Len(pwle.primitives) = Len(pwle.waveform) + 1
           /\ pwle.primitives[Len(pwle.primitives)] = Braking(pwle.braking, 0)
           /\ \A k \in 1..Len(pwle.waveform) :
                 pwle.primitives[k].duration = pwle.waveform[k].mDuration

C9_Witness ==
    /\ Compiled
    /\ pwle.braking = "CLAB"
    /\ Len(pwle.waveform) = MaxLen
    /\ EndsDecaying(pwle.waveform)
    /\ Len(pwle.primitives) = MaxLen + 1

RECURSIVE SumOfDurations(_)
SumOfDurations(waveform) ==
    IF waveform = <<>> THEN 0
    ELSE waveform[1].mDuration + SumOfDurations(Tail(waveform))

\* C10: totalDuration is the sum of the durations of the input segments,
\* whatever was replaced by braking or appended.
C10_TotalDurationIsSum ==
    Compiled => pwle.totalDuration = SumOfDurations(pwle.waveform)

\* A waveform with a replaced segment and an appended trailing braking.
C10_Witness ==
    /\ Compiled
    /\ pwle.braking # BrakingNONE
    /\ Len(pwle.waveform) = 3
    /\ IsZero(pwle.waveform[2])
    /\ EndsDecaying(pwle.waveform)
    /\ pwle.totalDuration = 50

\* C11: a non-empty waveform compiled with braking NONE comes out with as many
\* elements as it has segments, element i the ActivePwle read from segment i
\* with every field as it was, and no BrakingPwle anywhere.
C11_NoneBrakingPassesThrough ==
    (Compiled /\ pwle.braking = BrakingNONE /\ Len(pwle.waveform) > 0)
        => /\ Len(pwle.primitives) = Len(pwle.waveform)
           /\ \A k \in 1..Len(pwle.waveform) :
                 LET ramp == pwle.waveform[k]
                 IN  pwle.primitives[k] =
                         [tag |-> "ActivePwle",
                          startAmplitude |-> ramp.mStartAmplitude,
                          endAmplitude |-> ramp.mEndAmplitude,
                          startFrequency |-> ramp.mStartFrequency,
                          endFrequency |-> ramp.mEndFrequency,
                          duration |-> ramp.mDuration]
           /\ \A k \in 1..Len(pwle.primitives) : pwle.primitives[k].tag # "BrakingPwle"

\* Braking NONE on a waveform that any other braking would change twice: a
\* zero segment in the middle and a last segment decaying to zero.
C11_Witness ==
    /\ Compiled
    /\ pwle.braking = BrakingNONE
    /\ Len(pwle.waveform) = 3
    /\ IsZero(pwle.waveform[2])
    /\ EndsDecaying(pwle.waveform)
    /\ Len(pwle.primitives) = 3

\* C18: whatever the braking, element 0 of the output of a non-empty waveform
\* is the ActivePwle read from segment 0, also when both its amplitudes are
\* zero; a waveform of one segment compiles to that ActivePwle alone or to it
\* followed by the trailing BrakingPwle of duration 0.
C18_FirstSegmentNeverReplaced ==
    (Compiled /\ Len(pwle.waveform) > 0)
        => LET ramp == pwle.waveform[1]
               first == Envelope(ramp.mStartAmplitude, ramp.mEndAmplitude, ramp.mDuration)
           IN  /\ Len(pwle.primitives) > 0
               /\ pwle.primitives[1] = first
               /\ Len(pwle.waveform) = 1
                     => \/ pwle.primitives = <<first>>
                        \/ /\ pwle.primitives = <<first, Braking(pwle.braking, 0)>>
                           /\ pwle.braking # BrakingNONE

\* A single zero segment with a braking configured: nothing is replaced and
\* nothing appended.
C18_Witness ==
    /\ Compiled
    /\ pwle.braking = "CLICK"
    /\ Len(pwle.waveform) = 1
    /\ IsZero(pwle.waveform[1])
    /\ Len(pwle.primitives) = 1
    /\ pwle.primitives[1].tag = "ActivePwle"

\* C20: a waveform of n segments compiles to n or n + 1 elements; element i
\* of the first n has the duration of segment i; an element past the n-th is
\* a BrakingPwle of duration 0 and follows an ActivePwle, so a last segment
\* that was replaced by a BrakingPwle is never followed by an appended one,
\* and nothing is appended anywhere but at the end.
C20_LengthOrderAndExclusiveBraking ==
    Compiled
        => LET n == Len(pwle.waveform)
               m == Len(pwle.primitives)
           IN  /\ m \in {n, n + 1}
               /\ \A k \in 1..n : pwle.primitives[k].duration = pwle.waveform[k].mDuration
               /\ m = n + 1
                     => /\ n > 0
                        /\ pwle.primitives[m] = Braking(pwle.braking, 0)
                        /\ pwle.primitives[n].tag = "ActivePwle"
               /\ (n > 0 /\ pwle.primitives[n].tag = "BrakingPwle") => m = n

\* The last of three segments is zero and was replaced: nothing is appended.
C20_Witness ==
    /\ Compiled
    /\ pwle.braking = "CLAB"
    /\ Len(pwle.waveform) = 3
    /\ IsZero(pwle.waveform[3])
    /\ pwle.primitives[3] = Braking("CLAB", pwle.waveform[3].mDuration)
    /\ Len(pwle.primitives) = 3

(***************************************************************************)
(* Properties of vibratorGetInfo (specification SpecGetInfo).              *)
(***************************************************************************)
Converted == getInfo.pc = "converted"

\* The values a field can validly report: any bitmask, any float that is a
\* number, any vector, the zero and empty ones included.
ValidCapabilities == {0, 3}

ValidFloats == {0, 1500}

ValidVectors == {<<>>, <<0, 1>>}

FloatFields == {"minFrequency", "resonantFrequency", "frequencyResolution", "qFactor"}

VectorFields == {"supportedEffects", "supportedBraking", "supportedPrimitives",
                 "maxAmplitudes"}

\* The value the VibratorInfo built in this state holds for a field.
Produced(field) ==
    CASE field = "qFactor" -> getInfo.obj.qFactor
      [] field = "minFrequency" -> getInfo.obj.frequencyMapping.minFrequency
      [] field = "resonantFrequency" -> getInfo.obj.frequencyMapping.resonantFrequency
      [] field = "frequencyResolution" -> getInfo.obj.frequencyMapping.frequencyResolution
      [] field = "supportedEffects" -> getInfo.obj.supportedEffects
      [] field = "supportedBraking" -> getInfo.obj.supportedBraking
      [] field = "supportedPrimitives" -> getInfo.obj.supportedPrimitives
      [] field = "maxAmplitudes" -> getInfo.obj.frequencyMapping.maxAmplitudes

\* The float and vector fields the hardware did not report hold a value that
\* no validly reported value of the field produces.
AbsentFloatsAndVectorsMarked ==
    /\ \A field \in FloatFields :
          ~getInfo.info[field].ok
              => \A v \in ValidFloats : Produced(field) # floatOrNaN(Reported(v))
    /\ \A field \in VectorFields :
          ~getInfo.info[field].ok
              => \A v \in ValidVectors : Produced(field) # arrayOrNull(Reported(v))

AbsentCapabilitiesMarked ==
    ~getInfo.info.capabilities.ok
        => \A v \in ValidCapabilities :
              getInfo.obj.capabilities
                  # infoCapabilities([getInfo.info EXCEPT !.capabilities = Reported(v)])

====
